---- MODULE Spec2Model ----
(***************************************************************************)
(* Model of app.py, the Kerala PSC quiz (Streamlit).                       *)
(*                                                                         *)
(* One action is one run of the script, triggered by one widget event.    *)
(* st.session_state (questions, current_idx, user_answers,                *)
(* quiz_submitted) persists between runs; the module-level `model` is     *)
(* built once from st.secrets; the locals of get_psc_questions and of the *)
(* Generate handler (response, the returned list) live for one run.       *)
(*                                                                         *)
(* Python text is a sequence of one-character strings: "ab" is            *)
(* <<"a","b">>, "" is <<>>.  Dict keys (question indices) are 0-based as   *)
(* in the code; a question list is a TLA+ sequence, so questions[idx] of   *)
(* the code is list[idx + 1] here.                                         *)
(***************************************************************************)
EXTENDS Integers, Sequences, FiniteSets, TLC

\* ------------------------------------------------------------------ bounds
MaxBatch == 2        \* most records in one backend reply
MinOpts == 3         \* fewest options in a generated record
MaxOpts == 4         \* most options in a generated record
MaxAnsLen == 2       \* longest answer text in a generated record

\* ------------------------------------------------------- program constants
OptionCount == 4
RequiredKeys == {"question", "options", "answer", "explanation"}
SecretNames == {"GEMINI_KEY", "GEN_API_KEY"}

\* ------------------------------------------------------------ value domain
Letters == <<"a", "b", "c", "d", "e", "f", "g", "h">>
AnswerChars == {"a", "b", "e"}

StrOfLen(n) == [1..n -> AnswerChars]
AnswerTexts == UNION {StrOfLen(n) : n \in 0..MaxAnsLen}

\* A JSON array of n one-letter strings, and a JSON string of n letters.
ListOptions(n) == [type |-> "list", items |-> [i \in 1..n |-> <<Letters[i]>>]]
StrOptions(n) == [type |-> "str", items |-> [i \in 1..n |-> Letters[i]]]
OptionValues == UNION {{ListOptions(n), StrOptions(n)} : n \in MinOpts..MaxOpts}

KeySets == {RequiredKeys, RequiredKeys \ {"explanation"}}

\* A JSON object of the reply: the keys it has, its options and its answer.
Records == [keys : KeySets, options : OptionValues, answer : AnswerTexts]

BatchesOf(recs, n) == UNION {[1..k -> recs] : k \in 0..n}

\* The document json.loads is given: not JSON at all, a JSON object, or a
\* JSON array of records.
Malformed == [kind |-> "malformed", list |-> <<>>]
JsonObject == [kind |-> "object", list |-> <<>>]
JsonList(l) == [kind |-> "list", list |-> l]
BodiesOf(recs, n) == {Malformed, JsonObject} \cup {JsonList(l) : l \in BatchesOf(recs, n)}

\* What model.generate_content does: raises, or returns text, bare or inside
\* a ``` fence with no tag, the tag json, or another tag.
Fences == {"none", "plain", "json", "other"}
BackendError == [status |-> "error", fence |-> "none", body |-> Malformed]
NoResponse == [status |-> "none", fence |-> "none", body |-> Malformed]
Text(f, b) == [status |-> "text", fence |-> f, body |-> b]
ResponsesOf(recs, n, fences) ==
    {BackendError} \cup {Text(f, b) : f \in fences, b \in BodiesOf(recs, n)}

Responses == ResponsesOf(Records, MaxBatch, Fences)

\* The replies the session specification draws from: the backend raising,
\* bare text that is no JSON, a JSON object, and JSON arrays of records with
\* all keys and OptionCount listed options, the answer being the first or the
\* second of them; and one array that fails validation (its answer is no
\* option).
SessionRecords ==
    {q \in Records : /\ q.keys = RequiredKeys
                     /\ q.options = ListOptions(OptionCount)
                     /\ q.answer \in {<<Letters[1]>>, <<Letters[2]>>}}
InvalidReply ==
    Text("none", JsonList(<<[keys |-> RequiredKeys,
                             options |-> ListOptions(OptionCount),
                             answer |-> <<"e">>]>>))
SessionResponses == ResponsesOf(SessionRecords, MaxBatch, {"none"}) \cup {InvalidReply}

\* Optional[List[Dict]]
None == [isNone |-> TRUE, list |-> <<>>]
Some(l) == [isNone |-> FALSE, list |-> l]
Truthy(v) == ~v.isNone /\ Len(v.list) > 0

\* secrets         which of the two names st.secrets holds a value for (line 11)
\* model           whether initialize_gemini returned a model (line 23)
\* questions, current_idx, user_answers, quiz_submitted
\*                 st.session_state (lines 103-110)
\* event           the widget event that triggered the last run
\* response        what generate_content gave in the last run (line 52)
\* fetched         what get_psc_questions returned in the last run (line 138)
\* attempts        generate_content calls made in the last run
\* discarded       history: the session values the last run overwrote
VARIABLES secrets, model, questions, current_idx, user_answers, quiz_submitted,
          event, response, fetched, attempts, discarded

vars == <<secrets, model, questions, current_idx, user_answers, quiz_submitted,
          event, response, fetched, attempts, discarded>>

session == <<questions, current_idx, user_answers, quiz_submitted>>

\* ------------------------------------------------------ get_psc_questions
\* len(q['options'])
PyLen(o) == Len(o.items)

\* q['answer'] in q['options']: membership in a list, substring of a string.
PyIn(a, o) ==
    IF o.type = "list"
    THEN \E i \in 1..Len(o.items) : o.items[i] = a
    ELSE \E s \in 0..(Len(o.items) - Len(a)) : SubSeq(o.items, s + 1, s + Len(a)) = a

\* enumerate(q['options']): the elements of a list, the characters of a string.
Enumerate(o) ==
    IF o.type = "list" THEN o.items ELSE [i \in 1..Len(o.items) |-> <<o.items[i]>>]

\* The text json.loads receives after the fence is removed.
CleanText(r) ==
    IF r.fence = "other" THEN Malformed ELSE r.body

RecordPasses(q) ==
    /\ RequiredKeys \subseteq q.keys
    /\ PyLen(q.options) = OptionCount
    /\ PyIn(q.answer, q.options)

ParseAndValidate(r) ==
    LET doc == CleanText(r) IN
    IF doc.kind = "malformed" THEN None
    ELSE IF doc.kind # "list" \/ Len(doc.list) = 0 THEN None
    ELSE IF \A i \in 1..Len(doc.list) : RecordPasses(doc.list[i]) THEN Some(doc.list)
    ELSE None

get_psc_questions(m, r) ==
    IF ~m THEN None
    ELSE IF r.status = "error" THEN None
    ELSE ParseAndValidate(r)

\* A bug: the request is sent again after the first one.
BackendCalls_Retry(m) == IF m THEN 2 ELSE 0

BackendCalls(m) == IF m THEN 1 ELSE 0

\* --------------------------------------------------------- initialize_gemini
ApiKeyFound(s) == s["GEMINI_KEY"] \/ s["GEN_API_KEY"]

\* --------------------------------------------------------- calculate_score
ScoreError == [error |-> TRUE, correct |-> 0, pctNum |-> 0, pctDen |-> 1]

\* A bug: the recorded answer is compared with the record before it.
calculate_score_OffByOne(qs, ua) ==
    IF DOMAIN ua = {} THEN [error |-> FALSE, correct |-> 0, pctNum |-> 0, pctDen |-> 1]
    ELSE IF qs.isNone \/ \E i \in DOMAIN ua : i + 1 > Len(qs.list) THEN ScoreError
    ELSE LET correct == Cardinality({i \in DOMAIN ua :
                                       i > 0 /\ ua[i] = qs.list[i].answer})
             total == Cardinality(DOMAIN ua)
         IN [error |-> FALSE, correct |-> correct,
             pctNum |-> correct * 100, pctDen |-> total]

calculate_score(qs, ua) ==
    IF DOMAIN ua = {} THEN [error |-> FALSE, correct |-> 0, pctNum |-> 0, pctDen |-> 1]
    ELSE IF qs.isNone \/ \E i \in DOMAIN ua : i + 1 > Len(qs.list) THEN ScoreError
    ELSE LET correct == Cardinality({i \in DOMAIN ua : ua[i] = qs.list[i + 1].answer})
             total == Cardinality(DOMAIN ua)
         IN [error |-> FALSE, correct |-> correct,
             pctNum |-> correct * 100, pctDen |-> total]

\* ------------------------------------------------------------------- Init
NothingDiscarded == [submitted |-> FALSE, len |-> 0, answered |-> FALSE]

EmptyAnswers == [i \in {} |-> <<>>]

Init ==
    /\ secrets \in [SecretNames -> BOOLEAN]
    /\ model \in (IF ApiKeyFound(secrets) THEN {TRUE, FALSE} ELSE {FALSE})
    /\ questions = None
    /\ current_idx = 0
    /\ user_answers = EmptyAnswers
    /\ quiz_submitted = FALSE
    /\ event = "load"
    /\ response = NoResponse
    /\ fetched = None
    /\ attempts = 0
    /\ discarded = NothingDiscarded

\* A run in which get_psc_questions is not called.
NoFetch ==
    /\ response' = NoResponse
    /\ fetched' = None
    /\ attempts' = 0

\* What a run that overwrites the session throws away (history): whether the
\* quiz was submitted, how many questions it had, whether any was answered.
Discards ==
    [submitted |-> quiz_submitted,
     len |-> Len(questions.list),
     answered |-> DOMAIN user_answers # {}]

\* ---------------------------------------------------------------- actions
\* A bug: the handler forgets current_idx = 0.
InstallQuiz_KeepIndex(qs) ==
    /\ questions' = qs
    /\ current_idx' = current_idx
    /\ user_answers' = [i \in {} |-> <<>>]
    /\ quiz_submitted' = FALSE

\* A bug: the handler forgets user_answers = {}.
InstallQuiz_KeepAnswers(qs) ==
    /\ questions' = qs
    /\ current_idx' = 0
    /\ user_answers' = user_answers
    /\ quiz_submitted' = FALSE

InstallQuiz(qs) ==
    /\ questions' = qs
    /\ current_idx' = 0
    /\ user_answers' = EmptyAnswers
    /\ quiz_submitted' = FALSE

\* A bug: the handler stores the result without testing it.
GenerateNewQuiz_Unchecked(r) ==
    LET got == get_psc_questions(model, r) IN
    /\ event' = "generate"
    /\ response' = IF model THEN r ELSE NoResponse
    /\ attempts' = BackendCalls(model)
    /\ fetched' = got
    /\ questions' = got
    /\ current_idx' = 0
    /\ user_answers' = [i \in {} |-> <<>>]
    /\ quiz_submitted' = FALSE
    /\ discarded' = Discards
    /\ UNCHANGED <<secrets, model>>

GenerateNewQuiz(r) ==
    LET got == get_psc_questions(model, r) IN
    /\ event' = "generate"
    /\ response' = IF model THEN r ELSE NoResponse
    /\ attempts' = BackendCalls(model)
    /\ fetched' = got
    /\ IF Truthy(got)
       THEN InstallQuiz(got) /\ discarded' = Discards
       ELSE UNCHANGED session /\ discarded' = NothingDiscarded
    /\ UNCHANGED <<secrets, model>>

\* A bug: the handler forgets current_idx = 0.
ResetQuiz_KeepIndex ==
    /\ Truthy(questions)
    /\ event' = "reset"
    /\ user_answers' = [i \in {} |-> <<>>]
    /\ quiz_submitted' = FALSE
    /\ discarded' = Discards
    /\ NoFetch
    /\ UNCHANGED <<secrets, model, questions, current_idx>>

ResetQuiz ==
    /\ Truthy(questions)
    /\ event' = "reset"
    /\ user_answers' = EmptyAnswers
    /\ current_idx' = 0
    /\ quiz_submitted' = FALSE
    /\ discarded' = Discards
    /\ NoFetch
    /\ UNCHANGED <<secrets, model, questions>>

\* A bug: the option buttons are drawn for an answered question too.
AlreadyAnswered_Never == FALSE

AlreadyAnswered == current_idx \in DOMAIN user_answers

SetAnswer(ua, idx, option) ==
    [i \in DOMAIN ua \cup {idx} |-> IF i = idx THEN option ELSE ua[i]]

SelectOption(i) ==
    /\ Truthy(questions)
    /\ ~AlreadyAnswered
    /\ i \in 1..Len(Enumerate(questions.list[current_idx + 1].options))
    /\ event' = "select"
    /\ discarded' = NothingDiscarded
    /\ user_answers' = SetAnswer(user_answers, current_idx,
                                 Enumerate(questions.list[current_idx + 1].options)[i])
    /\ NoFetch
    /\ UNCHANGED <<secrets, model, questions, current_idx, quiz_submitted>>

PreviousEnabled == ~(current_idx = 0)

\* A bug: going back reopens a submitted quiz.
Previous_Unfinish ==
    /\ Truthy(questions)
    /\ PreviousEnabled
    /\ event' = "previous"
    /\ discarded' = NothingDiscarded
    /\ current_idx' = current_idx - 1
    /\ quiz_submitted' = FALSE
    /\ NoFetch
    /\ UNCHANGED <<secrets, model, questions, user_answers>>

Previous ==
    /\ Truthy(questions)
    /\ PreviousEnabled
    /\ event' = "previous"
    /\ discarded' = NothingDiscarded
    /\ current_idx' = current_idx - 1
    /\ NoFetch
    /\ UNCHANGED <<secrets, model, questions, user_answers, quiz_submitted>>

JumpRange == 1..Len(questions.list)

JumpTo(j) ==
    /\ Truthy(questions)
    /\ j \in JumpRange
    /\ j # current_idx + 1
    /\ event' = "jump"
    /\ discarded' = NothingDiscarded
    /\ current_idx' = j - 1
    /\ NoFetch
    /\ UNCHANGED <<secrets, model, questions, user_answers, quiz_submitted>>

\* A bug: Finish is drawn on every question.
NextShown_Never == FALSE

NextShown == current_idx < Len(questions.list) - 1

NextQuestion ==
    /\ Truthy(questions)
    /\ NextShown
    /\ event' = "next"
    /\ discarded' = NothingDiscarded
    /\ current_idx' = current_idx + 1
    /\ NoFetch
    /\ UNCHANGED <<secrets, model, questions, user_answers, quiz_submitted>>

Finish ==
    /\ Truthy(questions)
    /\ ~NextShown
    /\ event' = "finish"
    /\ discarded' = NothingDiscarded
    /\ quiz_submitted' = TRUE
    /\ NoFetch
    /\ UNCHANGED <<secrets, model, questions, current_idx, user_answers>>

Generate == \E r \in SessionResponses : GenerateNewQuiz(r)
Select == \E i \in 1..MaxOpts : SelectOption(i)
Jump == \E j \in 1..MaxBatch : JumpTo(j)

Next ==
    \/ Generate
    \/ ResetQuiz
    \/ Select
    \/ Previous
    \/ Jump
    \/ NextQuestion
    \/ Finish

Spec == Init /\ [][Next]_vars

\* The first Generate New Quiz of a session, over every reply of the backend.
FirstGenerate ==
    /\ event = "load"
    /\ \E r \in Responses : GenerateNewQuiz(r)

SpecFetch == Init /\ [][FirstGenerate]_vars

\* ------------------------------------------------------------------ claims
NumCredentials == Cardinality({k \in SecretNames : secrets[k]})
Loaded == Truthy(questions)
NumQuestions == Len(questions.list)
Answered == DOMAIN user_answers
GenerateRan == event = "generate"
FetchSucceeded == ~fetched.isNone

\* The options a record shows, and whether it is the record the data model
\* describes: exactly four options, the answer equal to one of them.
ShownOptions(q) == {Enumerate(q.options)[i] : i \in 1..Len(Enumerate(q.options))}
WellFormed(q) ==
    /\ Len(Enumerate(q.options)) = OptionCount
    /\ q.answer \in ShownOptions(q)
AllWellFormed(v) ==
    /\ Len(v.list) > 0
    /\ \A i \in 1..Len(v.list) : WellFormed(v.list[i])
HasBadRecord(r) ==
    /\ r.status = "text"
    /\ r.body.kind = "list"
    /\ \E i \in 1..Len(r.body.list) : ~WellFormed(r.body.list[i])

\* C1: every question set get_psc_questions returns, and every value stored in
\* the session's questions, is a non-empty list whose records each have exactly
\* 4 options and an answer equal to one of them; a reply with even one record
\* that is not so is rejected whole.
C1_ReturnedSetsWellFormed ==
    /\ FetchSucceeded => AllWellFormed(fetched)
    /\ ~questions.isNone => AllWellFormed(questions)
    /\ HasBadRecord(response) => ~FetchSucceeded

\* C2 as stated: with N configured credentials a call makes at most N backend
\* attempts, and a call whose every attempt fails returns after exactly N.
C2_ExactlyNAttemptsOnFailure ==
    /\ GenerateRan => attempts <= NumCredentials
    /\ (GenerateRan /\ model /\ ~FetchSucceeded) => attempts = NumCredentials

\* C2 amended: a call makes exactly one backend attempt when the model is
\* initialised and none otherwise, however many credentials are configured
\* (so never more than N); a failed attempt is not retried.
C2_SingleAttempt ==
    GenerateRan =>
        /\ attempts = (IF model THEN 1 ELSE 0)
        /\ attempts <= NumCredentials
        /\ (attempts = 1) = (response.status # "none")
        /\ response.status = "error" => ~FetchSucceeded

C2_FailedWithTwoCredentials ==
    /\ GenerateRan
    /\ NumCredentials = 2
    /\ response.status = "error"
    /\ ~FetchSucceeded
    /\ attempts = 1

\* A step that is a Reset Quiz or a successful Generate New Quiz.
SessionReplaced == event' = "reset" \/ (event' = "generate" /\ ~fetched'.isNone)

\* C3: once user_answers[i] is set, no step other than Reset Quiz or a
\* successful Generate New Quiz changes or removes it.
C3_AnswerImmutable ==
    [][\A i \in Answered :
          ~SessionReplaced => (i \in DOMAIN user_answers' /\ user_answers'[i] = user_answers[i])]_vars

C3_AnsweredAndRevisited ==
    /\ Loaded
    /\ event = "previous"
    /\ current_idx \in Answered
    /\ Cardinality(Answered) >= 2

\* C4: whenever questions are loaded, 0 <= current_idx <= len(questions) - 1.
C4_IndexInBounds ==
    Loaded => (0 <= current_idx /\ current_idx <= NumQuestions - 1)

C4_ShorterQuizInstalled ==
    /\ GenerateRan
    /\ FetchSucceeded
    /\ discarded.len > NumQuestions
    /\ current_idx = 0

\* C5: quiz_submitted goes from false to true only by Finish, and only when
\* current_idx is the final index.
C5_SubmittedOnlyByFinish ==
    [][(~quiz_submitted /\ quiz_submitted') =>
          /\ event' = "finish"
          /\ Loaded
          /\ current_idx = NumQuestions - 1
          /\ UNCHANGED <<questions, current_idx, user_answers>>]_vars

C5_Finished ==
    /\ event = "finish"
    /\ quiz_submitted
    /\ NumQuestions >= 2
    /\ current_idx = NumQuestions - 1

\* C6 as stated: quiz_submitted goes from true to false only by a reset that
\* leaves the session empty (no questions, no answers, index 0).
C6_UnfinishOnlyToEmpty ==
    [][(quiz_submitted /\ ~quiz_submitted') =>
          /\ questions'.isNone
          /\ user_answers' = EmptyAnswers
          /\ current_idx' = 0]_vars

\* C6 amended: quiz_submitted goes from true to false only by Reset Quiz or a
\* successful Generate New Quiz; both leave no answers and index 0 with a
\* question set still loaded (Reset Quiz keeps the same one).
C6_UnfinishOnlyByReplace ==
    [][(quiz_submitted /\ ~quiz_submitted') =>
          /\ SessionReplaced
          /\ user_answers' = EmptyAnswers
          /\ current_idx' = 0
          /\ Truthy(questions')
          /\ event' = "reset" => questions' = questions]_vars

C6_FinishedQuizReplaced ==
    /\ GenerateRan
    /\ FetchSucceeded
    /\ discarded.submitted
    /\ ~quiz_submitted

\* C7 as stated: after Reset Quiz from a finished session all four fields have
\* their initial values, questions included.
C7_ResetClearsQuestions ==
    (event = "reset" /\ discarded.submitted) =>
        /\ questions.isNone
        /\ user_answers = EmptyAnswers
        /\ current_idx = 0
        /\ ~quiz_submitted

\* C7 amended: Reset Quiz from a finished session sets user_answers to empty,
\* current_idx to 0 and quiz_submitted to false, and leaves questions as they
\* were.
C7_ResetKeepsQuestions ==
    [][(quiz_submitted /\ event' = "reset") =>
          /\ user_answers' = EmptyAnswers
          /\ current_idx' = 0
          /\ ~quiz_submitted'
          /\ questions' = questions]_vars

C7_ResetFromFinished ==
    /\ event = "reset"
    /\ discarded.submitted
    /\ discarded.answered
    /\ NumQuestions >= 2

\* The final result is on screen.
ResultsShown ==
    /\ Loaded
    /\ quiz_submitted
    /\ Cardinality(Answered) = NumQuestions

\* The indices whose recorded answer is the question's answer.
Matching ==
    {i \in 0..(NumQuestions - 1) :
        i \in Answered /\ user_answers[i] = questions.list[i + 1].answer}

\* C8: whenever the final result is shown, the score is the number of indices
\* whose recorded answer is the question's answer, the percentage is that
\* number * 100 / len(questions), and the denominator calculate_score uses is
\* len(questions) and not zero.
C8_FinalScore ==
    ResultsShown =>
        LET s == calculate_score(questions, user_answers) IN
        /\ ~s.error
        /\ s.correct = Cardinality(Matching)
        /\ s.pctDen = NumQuestions
        /\ s.pctDen # 0
        /\ s.pctNum * NumQuestions = Cardinality(Matching) * 100 * s.pctDen

C8_HalfRight ==
    /\ ResultsShown
    /\ NumQuestions = 2
    /\ Cardinality(Matching) = 1

\* C9: a Generate New Quiz run that fetched a list installs it with index 0,
\* no answers and quiz_submitted false; one that fetched nothing leaves the
\* four session fields as they were; no other run changes questions.
C9_GenerateInstallsOrKeeps ==
    [][/\ event' = "generate" =>
            IF ~fetched'.isNone
            THEN /\ questions' = fetched'
                 /\ Len(questions'.list) > 0
                 /\ current_idx' = 0
                 /\ user_answers' = EmptyAnswers
                 /\ ~quiz_submitted'
            ELSE UNCHANGED session
       /\ (event' = "generate" /\ (~model \/ response'.status # "text"
                                    \/ response'.body.kind # "list"))
            => fetched'.isNone
       /\ questions' # questions => event' = "generate"]_vars

C9_FailedFetchKeepsSession ==
    /\ GenerateRan
    /\ ~FetchSucceeded
    /\ response.status = "text"
    /\ Loaded
    /\ Answered # {}
    /\ current_idx > 0
    /\ quiz_submitted

\* C10: every key of user_answers is an index of the loaded questions and its
\* value is one of that question's options, so calculate_score never indexes
\* questions out of range.
C10_AnswersWithinQuestions ==
    /\ \A i \in Answered :
          /\ Loaded
          /\ 0 <= i /\ i < NumQuestions
          /\ user_answers[i] \in ShownOptions(questions.list[i + 1])
    /\ ~calculate_score(questions, user_answers).error

C10_ShorterQuizAfterAnswers ==
    /\ GenerateRan
    /\ FetchSucceeded
    /\ discarded.answered
    /\ discarded.len > NumQuestions
    /\ Answered = {}

====
